---- MODULE Spec2Model ----
(***************************************************************************)
(* Chat backend of app/main.py: the users / conversations / messages store *)
(* and the handlers create_user, send_message (POST /chat/), get_history   *)
(* (GET /history/{user_id}) and chat_stream (POST /chat/stream).           *)
(*                                                                         *)
(* Text is modelled as the sequence of its Unicode code points, so that    *)
(* str.lower, str.split, str.strip and "+" are computed, not assumed.      *)
(* A UUID is modelled as a number naming the object uuid4() was called for.*)
(***************************************************************************)
EXTENDS Integers, Sequences, FiniteSets, TLC

\* Bounds of the exploration.
MaxRequests == 2        \* requests (POST /chat/ and POST /chat/stream) ever received
MaxStreams == 1         \* of which POST /chat/stream requests

\* Optional[uuid.UUID] = None, and a well-formed UUID that uuid4() never returned.
None == -1
NilUUID == 0

(***************************************************************************)
(* sport_responses, main.py:122-153                                        *)
(***************************************************************************)
\* "rugby"
rugby ==
    <<114, 117, 103, 98, 121>>

\* "football"
football ==
    <<102, 111, 111, 116, 98, 97, 108, 108>>

\* "tennis"
tennis ==
    <<116, 101, 110, 110, 105, 115>>

\* "volley"
volley ==
    <<118, 111, 108, 108, 101, 121>>

\* "cyclisme"
cyclisme ==
    <<99, 121, 99, 108, 105, 115, 109, 101>>

\* main.py:124  "Le rugby est un sport de combat collectif qui se joue _ 15 contre 15."
rugby_1 ==
    <<76, 101, 32, 114, 117, 103, 98, 121, 32, 101, 115, 116, 32, 117, 110, 32, 115, 112, 111,
      114, 116, 32, 100, 101, 32, 99, 111, 109, 98, 97, 116, 32, 99, 111, 108, 108, 101, 99,
      116, 105, 102, 32, 113, 117, 105, 32, 115, 101, 32, 106, 111, 117, 101, 32, 224, 32, 49,
      53, 32, 99, 111, 110, 116, 114, 101, 32, 49, 53, 46>>

\* main.py:125  "Le XV de France a remport_ le Tournoi des Six Nations en 2022."
rugby_2 ==
    <<76, 101, 32, 88, 86, 32, 100, 101, 32, 70, 114, 97, 110, 99, 101, 32, 97, 32, 114, 101,
      109, 112, 111, 114, 116, 233, 32, 108, 101, 32, 84, 111, 117, 114, 110, 111, 105, 32,
      100, 101, 115, 32, 83, 105, 120, 32, 78, 97, 116, 105, 111, 110, 115, 32, 101, 110, 32,
      50, 48, 50, 50, 46>>

\* main.py:126  "La Coupe du Monde de Rugby se d_roule tous les quatre ans."
rugby_3 ==
    <<76, 97, 32, 67, 111, 117, 112, 101, 32, 100, 117, 32, 77, 111, 110, 100, 101, 32, 100,
      101, 32, 82, 117, 103, 98, 121, 32, 115, 101, 32, 100, 233, 114, 111, 117, 108, 101, 32,
      116, 111, 117, 115, 32, 108, 101, 115, 32, 113, 117, 97, 116, 114, 101, 32, 97, 110,
      115, 46>>

\* main.py:127  "L'essai vaut 5 points, la transformation 2 points et le drop ou la p_nalit_ 3 points."
rugby_4 ==
    <<76, 39, 101, 115, 115, 97, 105, 32, 118, 97, 117, 116, 32, 53, 32, 112, 111, 105, 110,
      116, 115, 44, 32, 108, 97, 32, 116, 114, 97, 110, 115, 102, 111, 114, 109, 97, 116, 105,
      111, 110, 32, 50, 32, 112, 111, 105, 110, 116, 115, 32, 101, 116, 32, 108, 101, 32, 100,
      114, 111, 112, 32, 111, 117, 32, 108, 97, 32, 112, 233, 110, 97, 108, 105, 116, 233, 32,
      51, 32, 112, 111, 105, 110, 116, 115, 46>>

\* main.py:130  "Le football se joue _ 11 contre 11 avec un ballon rond."
football_1 ==
    <<76, 101, 32, 102, 111, 111, 116, 98, 97, 108, 108, 32, 115, 101, 32, 106, 111, 117, 101,
      32, 224, 32, 49, 49, 32, 99, 111, 110, 116, 114, 101, 32, 49, 49, 32, 97, 118, 101, 99,
      32, 117, 110, 32, 98, 97, 108, 108, 111, 110, 32, 114, 111, 110, 100, 46>>

\* main.py:131  "La Coupe du Monde de football a lieu tous les quatre ans."
football_2 ==
    <<76, 97, 32, 67, 111, 117, 112, 101, 32, 100, 117, 32, 77, 111, 110, 100, 101, 32, 100,
      101, 32, 102, 111, 111, 116, 98, 97, 108, 108, 32, 97, 32, 108, 105, 101, 117, 32, 116,
      111, 117, 115, 32, 108, 101, 115, 32, 113, 117, 97, 116, 114, 101, 32, 97, 110, 115, 46>>

\* main.py:132  "Le Real Madrid est le club le plus titr_ en Ligue des Champions."
football_3 ==
    <<76, 101, 32, 82, 101, 97, 108, 32, 77, 97, 100, 114, 105, 100, 32, 101, 115, 116, 32,
      108, 101, 32, 99, 108, 117, 98, 32, 108, 101, 32, 112, 108, 117, 115, 32, 116, 105, 116,
      114, 233, 32, 101, 110, 32, 76, 105, 103, 117, 101, 32, 100, 101, 115, 32, 67, 104, 97,
      109, 112, 105, 111, 110, 115, 46>>

\* main.py:133  "Un match de football dure 90 minutes, r_parties en deux mi-temps de 45 minutes."
football_4 ==
    <<85, 110, 32, 109, 97, 116, 99, 104, 32, 100, 101, 32, 102, 111, 111, 116, 98, 97, 108,
      108, 32, 100, 117, 114, 101, 32, 57, 48, 32, 109, 105, 110, 117, 116, 101, 115, 44, 32,
      114, 233, 112, 97, 114, 116, 105, 101, 115, 32, 101, 110, 32, 100, 101, 117, 120, 32,
      109, 105, 45, 116, 101, 109, 112, 115, 32, 100, 101, 32, 52, 53, 32, 109, 105, 110, 117,
      116, 101, 115, 46>>

\* main.py:136  "Le tennis se joue en simple (1 contre 1) ou en double (2 contre 2)."
tennis_1 ==
    <<76, 101, 32, 116, 101, 110, 110, 105, 115, 32, 115, 101, 32, 106, 111, 117, 101, 32,
      101, 110, 32, 115, 105, 109, 112, 108, 101, 32, 40, 49, 32, 99, 111, 110, 116, 114, 101,
      32, 49, 41, 32, 111, 117, 32, 101, 110, 32, 100, 111, 117, 98, 108, 101, 32, 40, 50, 32,
      99, 111, 110, 116, 114, 101, 32, 50, 41, 46>>

\* main.py:137  "Les quatre tournois du Grand Chelem sont l'Open d'Australie, Roland-Garros, Wimbledon et l'US Open."
tennis_2 ==
    <<76, 101, 115, 32, 113, 117, 97, 116, 114, 101, 32, 116, 111, 117, 114, 110, 111, 105,
      115, 32, 100, 117, 32, 71, 114, 97, 110, 100, 32, 67, 104, 101, 108, 101, 109, 32, 115,
      111, 110, 116, 32, 108, 39, 79, 112, 101, 110, 32, 100, 39, 65, 117, 115, 116, 114, 97,
      108, 105, 101, 44, 32, 82, 111, 108, 97, 110, 100, 45, 71, 97, 114, 114, 111, 115, 44,
      32, 87, 105, 109, 98, 108, 101, 100, 111, 110, 32, 101, 116, 32, 108, 39, 85, 83, 32,
      79, 112, 101, 110, 46>>

\* main.py:138  "Le service alterne tous les deux points, et les joueurs changent de c_t_ tous les jeux impairs."
tennis_3 ==
    <<76, 101, 32, 115, 101, 114, 118, 105, 99, 101, 32, 97, 108, 116, 101, 114, 110, 101, 32,
      116, 111, 117, 115, 32, 108, 101, 115, 32, 100, 101, 117, 120, 32, 112, 111, 105, 110,
      116, 115, 44, 32, 101, 116, 32, 108, 101, 115, 32, 106, 111, 117, 101, 117, 114, 115,
      32, 99, 104, 97, 110, 103, 101, 110, 116, 32, 100, 101, 32, 99, 244, 116, 233, 32, 116,
      111, 117, 115, 32, 108, 101, 115, 32, 106, 101, 117, 120, 32, 105, 109, 112, 97, 105,
      114, 115, 46>>

\* main.py:139  "Le tie-break se joue _ 6-6 dans la plupart des sets."
tennis_4 ==
    <<76, 101, 32, 116, 105, 101, 45, 98, 114, 101, 97, 107, 32, 115, 101, 32, 106, 111, 117,
      101, 32, 224, 32, 54, 45, 54, 32, 100, 97, 110, 115, 32, 108, 97, 32, 112, 108, 117,
      112, 97, 114, 116, 32, 100, 101, 115, 32, 115, 101, 116, 115, 46>>

\* main.py:142  "Le volleyball se joue _ 6 contre 6 sur un terrain s_par_ par un filet."
volley_1 ==
    <<76, 101, 32, 118, 111, 108, 108, 101, 121, 98, 97, 108, 108, 32, 115, 101, 32, 106, 111,
      117, 101, 32, 224, 32, 54, 32, 99, 111, 110, 116, 114, 101, 32, 54, 32, 115, 117, 114,
      32, 117, 110, 32, 116, 101, 114, 114, 97, 105, 110, 32, 115, 233, 112, 97, 114, 233, 32,
      112, 97, 114, 32, 117, 110, 32, 102, 105, 108, 101, 116, 46>>

\* main.py:143  "Chaque _quipe peut toucher le ballon trois fois avant de le renvoyer."
volley_2 ==
    <<67, 104, 97, 113, 117, 101, 32, 233, 113, 117, 105, 112, 101, 32, 112, 101, 117, 116,
      32, 116, 111, 117, 99, 104, 101, 114, 32, 108, 101, 32, 98, 97, 108, 108, 111, 110, 32,
      116, 114, 111, 105, 115, 32, 102, 111, 105, 115, 32, 97, 118, 97, 110, 116, 32, 100,
      101, 32, 108, 101, 32, 114, 101, 110, 118, 111, 121, 101, 114, 46>>

\* main.py:144  "Un match se joue en trois sets gagnants de 25 points (avec 2 points d'_cart)."
volley_3 ==
    <<85, 110, 32, 109, 97, 116, 99, 104, 32, 115, 101, 32, 106, 111, 117, 101, 32, 101, 110,
      32, 116, 114, 111, 105, 115, 32, 115, 101, 116, 115, 32, 103, 97, 103, 110, 97, 110,
      116, 115, 32, 100, 101, 32, 50, 53, 32, 112, 111, 105, 110, 116, 115, 32, 40, 97, 118,
      101, 99, 32, 50, 32, 112, 111, 105, 110, 116, 115, 32, 100, 39, 233, 99, 97, 114, 116,
      41, 46>>

\* main.py:145  "La position des joueurs sur le terrain est r_glement_e et doit suivre un ordre pr_cis."
volley_4 ==
    <<76, 97, 32, 112, 111, 115, 105, 116, 105, 111, 110, 32, 100, 101, 115, 32, 106, 111,
      117, 101, 117, 114, 115, 32, 115, 117, 114, 32, 108, 101, 32, 116, 101, 114, 114, 97,
      105, 110, 32, 101, 115, 116, 32, 114, 233, 103, 108, 101, 109, 101, 110, 116, 233, 101,
      32, 101, 116, 32, 100, 111, 105, 116, 32, 115, 117, 105, 118, 114, 101, 32, 117, 110,
      32, 111, 114, 100, 114, 101, 32, 112, 114, 233, 99, 105, 115, 46>>

\* main.py:148  "Le Tour de France est la plus c_l_bre course cycliste au monde."
cyclisme_1 ==
    <<76, 101, 32, 84, 111, 117, 114, 32, 100, 101, 32, 70, 114, 97, 110, 99, 101, 32, 101,
      115, 116, 32, 108, 97, 32, 112, 108, 117, 115, 32, 99, 233, 108, 232, 98, 114, 101, 32,
      99, 111, 117, 114, 115, 101, 32, 99, 121, 99, 108, 105, 115, 116, 101, 32, 97, 117, 32,
      109, 111, 110, 100, 101, 46>>

\* main.py:149  "Le cyclisme sur route comprend diff_rents types d'_preuves : contre-la-montre, courses en ligne, etc."
cyclisme_2 ==
    <<76, 101, 32, 99, 121, 99, 108, 105, 115, 109, 101, 32, 115, 117, 114, 32, 114, 111, 117,
      116, 101, 32, 99, 111, 109, 112, 114, 101, 110, 100, 32, 100, 105, 102, 102, 233, 114,
      101, 110, 116, 115, 32, 116, 121, 112, 101, 115, 32, 100, 39, 233, 112, 114, 101, 117,
      118, 101, 115, 32, 58, 32, 99, 111, 110, 116, 114, 101, 45, 108, 97, 45, 109, 111, 110,
      116, 114, 101, 44, 32, 99, 111, 117, 114, 115, 101, 115, 32, 101, 110, 32, 108, 105,
      103, 110, 101, 44, 32, 101, 116, 99, 46>>

\* main.py:150  "Le maillot jaune est port_ par le leader du classement g_n_ral du Tour de France."
cyclisme_3 ==
    <<76, 101, 32, 109, 97, 105, 108, 108, 111, 116, 32, 106, 97, 117, 110, 101, 32, 101, 115,
      116, 32, 112, 111, 114, 116, 233, 32, 112, 97, 114, 32, 108, 101, 32, 108, 101, 97, 100,
      101, 114, 32, 100, 117, 32, 99, 108, 97, 115, 115, 101, 109, 101, 110, 116, 32, 103,
      233, 110, 233, 114, 97, 108, 32, 100, 117, 32, 84, 111, 117, 114, 32, 100, 101, 32, 70,
      114, 97, 110, 99, 101, 46>>

\* main.py:151  "Un v_lo de course p_se environ 7 kg et doit respecter des normes pr_cises fix_es par l'UCI."
cyclisme_4 ==
    <<85, 110, 32, 118, 233, 108, 111, 32, 100, 101, 32, 99, 111, 117, 114, 115, 101, 32, 112,
      232, 115, 101, 32, 101, 110, 118, 105, 114, 111, 110, 32, 55, 32, 107, 103, 32, 101,
      116, 32, 100, 111, 105, 116, 32, 114, 101, 115, 112, 101, 99, 116, 101, 114, 32, 100,
      101, 115, 32, 110, 111, 114, 109, 101, 115, 32, 112, 114, 233, 99, 105, 115, 101, 115,
      32, 102, 105, 120, 233, 101, 115, 32, 112, 97, 114, 32, 108, 39, 85, 67, 73, 46>>

sport_responses ==
    (rugby :> <<rugby_1, rugby_2, rugby_3, rugby_4>>)
    @@ (football :> <<football_1, football_2, football_3, football_4>>)
    @@ (tennis :> <<tennis_1, tennis_2, tennis_3, tennis_4>>)
    @@ (volley :> <<volley_1, volley_2, volley_3, volley_4>>)
    @@ (cyclisme :> <<cyclisme_1, cyclisme_2, cyclisme_3, cyclisme_4>>)

(***************************************************************************)
(* Python str methods used by the handlers.                                *)
(***************************************************************************)
\* str.isspace for one character (the white space below U+0100).
isspace(c) == c \in {9, 10, 11, 12, 13, 28, 29, 30, 31, 32, 133, 160}

\* str.lower for one character (A-Z and the Latin-1 capitals; the inputs of
\* the model hold no other cased character).
lower_char(c) ==
    IF (c >= 65 /\ c <= 90) \/ (c >= 192 /\ c <= 222 /\ c # 215) THEN c + 32 ELSE c

\* message.sport.lower(), main.py:180 and main.py:340
lower(s) == [i \in 1..Len(s) |-> lower_char(s[i])]

\* str.lstrip() / str.rstrip() / str.strip() without argument
RECURSIVE lstrip(_)
lstrip(s) == IF s # <<>> /\ isspace(Head(s)) THEN lstrip(Tail(s)) ELSE s

RECURSIVE rstrip(_)
rstrip(s) ==
    IF s # <<>> /\ isspace(s[Len(s)]) THEN rstrip(SubSeq(s, 1, Len(s) - 1)) ELSE s

\* full_response.strip(), main.py:395
strip(s) == rstrip(lstrip(s))

\* The first word of s (s starts with a non-space character) and what follows it.
RECURSIVE word_end(_, _)
word_end(s, i) == IF i < Len(s) /\ ~isspace(s[i + 1]) THEN word_end(s, i + 1) ELSE i

\* response.split(), main.py:325: the maximal runs of non-space characters.
RECURSIVE split(_)
split(s) ==
    LET t == lstrip(s)
    IN  IF t = <<>> THEN <<>>
        ELSE LET e == word_end(t, 1)
             IN  <<SubSeq(t, 1, e)>> \o split(SubSeq(t, e + 1, Len(t)))

\* random.choice(sport_responses[sport]), main.py:209 and main.py:322: the
\* values the draw can return (a KeyError, and so no value, off the catalog).
choices(sport) ==
    IF sport \in DOMAIN sport_responses
    THEN {sport_responses[sport][i] : i \in DOMAIN sport_responses[sport]}
    ELSE {}

(***************************************************************************)
(* Request inputs explored.                                                *)
(***************************************************************************)
\* "Football" and "badminton": a topic that is a catalog key only once
\* lower-cased, and one that is no catalog key.
Football == <<70, 111, 111, 116, 98, 97, 108, 108>>
badminton == <<98, 97, 100, 109, 105, 110, 116, 111, 110>>
\* "Salut"
Salut == <<83, 97, 108, 117, 116>>

Usernames == <<"alice", "bob">>
Sports == {Football, badminton}
Contents == {Salut}

\* "Utilisateur non trouvé", main.py:337
UserNotFoundText ==
    <<85, 116, 105, 108, 105, 115, 97, 116, 101, 117, 114, 32, 110, 111, 110, 32, 116,
      114, 111, 117, 118, 233>>
\* "Sport non pris en charge", main.py:342
SportNotSupportedText ==
    <<83, 112, 111, 114, 116, 32, 110, 111, 110, 32, 112, 114, 105, 115, 32, 101, 110,
      32, 99, 104, 97, 114, 103, 101>>

(***************************************************************************)
(* State.                                                                  *)
(***************************************************************************)
VARIABLES
    users,          \* table users (only ever looked up by id): [id, username]
    conversations,  \* table conversations, in table order: [id, user_id, sport, by]
    messages,       \* table messages, in table order:
                    \*   [id, conversation_id, is_user, content, created_at, by]
    requests,       \* the requests received, each with its handler's locals and position
    now             \* last reading of datetime.now()

vars == <<users, conversations, messages, requests, now>>

\* `by` is a history field, not a column: the request whose commit inserted the row.

\* default=uuid.uuid4, main.py:25, 31, 38: a fresh UUID.  The k-th row object
\* built by request r gets 10 * r + k; the user named Usernames[n] gets n.
uuid4(r, k) == 10 * r + k

\* class Conversation, main.py:29-34 (created_at is read by no modelled property)
ConversationRow(id, user_id, sport, by) ==
    [id |-> id, user_id |-> user_id, sport |-> sport, by |-> by]

\* Conversation(user_id=message.user_id, sport=sport), main.py:195 and 353,
\* built by request r for the lower-cased topic `sport`.
NewConversation_raw_sport(r, request, sport) ==
    ConversationRow(uuid4(r, 1), request.user_id, request.sport, r)

NewConversation(r, request, sport) ==
    ConversationRow(uuid4(r, 1), request.user_id, sport, r)

\* class Message, main.py:36-42
MessageRow(id, conversation_id, is_user, content, created_at, by) ==
    [id |-> id, conversation_id |-> conversation_id, is_user |-> is_user,
     content |-> content, created_at |-> created_at, by |-> by]

\* Message(conversation_id=..., is_user="true", content=...), main.py:201-205, 359-363
UserMessage_no_conversation(id, conversation_id, content, created_at, by) ==
    MessageRow(id, None, "true", content, created_at, by)

UserMessage(id, conversation_id, content, created_at, by) ==
    MessageRow(id, conversation_id, "true", content, created_at, by)

\* Message(conversation_id=..., is_user="false", content=...), main.py:210-214, 368-372
BotMessage_as_user(id, conversation_id, content, created_at, by) ==
    MessageRow(id, conversation_id, "true", content, created_at, by)

BotMessage(id, conversation_id, content, created_at, by) ==
    MessageRow(id, conversation_id, "false", content, created_at, by)

\* One chunk of a streamed body: the JSON object it serialises (<<>> when it
\* is plain text) followed by its plain text.
TextChunk(text) == [json |-> <<>>, text |-> text]
\* json.dumps(header_info) + "\n", main.py:378-385
HeaderChunk(message_id, conversation_id) ==
    [json |-> <<message_id, conversation_id>>, text |-> <<10>>]

NoResult ==
    [id |-> None, content |-> <<>>, is_user |-> FALSE, created_at |-> None,
     conversation_id |-> None]

\* A request as received: MessageCreate / ChatStreamRequest (main.py:59-63,
\* 83-87) and the handler's locals before its first statement.
NewRequest(op, user_id, sport, content, conversation_id) ==
    [op |-> op, user_id |-> user_id, sport |-> sport, content |-> content,
     conversation_id |-> conversation_id,
     pc |-> "start", status |-> 0, detail |-> "",
     conversation |-> None, pending |-> <<>>,
     user_message |-> None, bot_message |-> None,
     result |-> NoResult,
     out |-> <<>>, words |-> <<>>, full_response |-> <<>>]

Init ==
    /\ users = {}
    /\ conversations = <<>>
    /\ messages = <<>>
    /\ requests = <<>>
    /\ now = 0

(***************************************************************************)
(* Queries.                                                                *)
(***************************************************************************)
UserIds == {u.id : u \in users}
ConversationIds == {conversations[i].id : i \in DOMAIN conversations}

\* db.query(User).filter(User.id == user_id).first() is not None,
\* main.py:175-176, 237-238, 335-336
UserFound_unfiltered(user_id) == users # {}

UserFound(user_id) == \E u \in users : u.id = user_id

\* sport in sport_responses, main.py:181, 341
SportSupported_nonempty(sport) == sport # <<>>

SportSupported(sport) == sport \in DOMAIN sport_responses

\* db.query(Conversation).filter(Conversation.id == conversation_id,
\*     Conversation.user_id == user_id).first(): the id of the row, or None.
\* main.py:187-190, 347-350
FindConversation(conversation_id, user_id) ==
    IF \E i \in DOMAIN conversations :
           /\ conversations[i].id = conversation_id
           /\ conversations[i].user_id = user_id
    THEN conversation_id
    ELSE None

\* default=datetime.now, main.py:42: the reading that follows reading t.  Time
\* is counted in readings, so two readings differ and the later is the larger.
datetime_now(t) == t + 1

(***************************************************************************)
(* POST /users/, main.py:156-162.  A taken username violates the unique    *)
(* index and the request fails without writing.                            *)
(***************************************************************************)
create_user(n) ==
    /\ \A u \in users : u.username # Usernames[n]
    /\ users' = users \cup {[id |-> n, username |-> Usernames[n]]}
    /\ UNCHANGED <<conversations, messages, requests, now>>

(***************************************************************************)
(* POST /chat/, main.py:172-232.                                           *)
(***************************************************************************)
\* raise HTTPException(status_code=..., detail=...)
Raise(req, status, detail) ==
    [req EXCEPT !.pc = "done", !.status = status, !.detail = detail]

\* main.py:174-198: the checks, and the conversation found or committed.
send_message(user_id, sport_in, content, conversation_id) ==
    /\ Len(requests) < MaxRequests
    /\ LET message == NewRequest("send", user_id, sport_in, content, conversation_id)
           r == Len(requests) + 1
           sport == lower(sport_in)
           conversation == FindConversation(conversation_id, user_id)
       IN  IF ~UserFound(user_id)
           THEN /\ requests' = Append(requests, Raise(message, 404, "User not found"))
                /\ UNCHANGED <<users, conversations, messages, now>>
           ELSE IF ~SportSupported(sport)
           THEN /\ requests' = Append(requests, Raise(message, 400, "Sport not supported"))
                /\ UNCHANGED <<users, conversations, messages, now>>
           ELSE IF conversation_id # None
           THEN IF conversation = None
                THEN /\ requests' =
                            Append(requests, Raise(message, 404, "Conversation not found"))
                     /\ UNCHANGED <<users, conversations, messages, now>>
                ELSE /\ requests' =
                            Append(requests, [message EXCEPT !.pc = "flush",
                                                             !.conversation = conversation])
                     /\ UNCHANGED <<users, conversations, messages, now>>
           ELSE /\ conversations' =
                       Append(conversations, NewConversation(r, message, sport))
                /\ requests' =
                       Append(requests, [message EXCEPT !.pc = "flush",
                                                        !.conversation = uuid4(r, 1)])
                /\ UNCHANGED <<users, messages, now>>

\* main.py:200-217, first half of db.commit(): the two Message objects, the
\* drawn response, and the column defaults (uuid.uuid4, datetime.now) that
\* SQLAlchemy evaluates in the client before it sends the INSERT.
send_flush(r) ==
    /\ requests[r].op = "send" /\ requests[r].pc = "flush"
    /\ \E response_content \in choices(lower(requests[r].sport)) :
          LET q == requests[r]
              t1 == datetime_now(now)
              t2 == datetime_now(t1)
              user_message == UserMessage(uuid4(r, 2), q.conversation, q.content, t1, r)
              bot_message ==
                  BotMessage(uuid4(r, 3), q.conversation, response_content, t2, r)
          IN  /\ requests' = [requests EXCEPT ![r] =
                     [q EXCEPT !.pc = "insert",
                               !.user_message = user_message.id,
                               !.bot_message = bot_message.id,
                               !.pending = <<user_message, bot_message>>]]
              /\ now' = t2
    /\ UNCHANGED <<users, conversations, messages>>

\* main.py:217-232, second half of db.commit(): the INSERT reaches the table,
\* then db.refresh(bot_message) and the response.
send_insert(r) ==
    /\ requests[r].op = "send" /\ requests[r].pc = "insert"
    /\ messages' = messages \o requests[r].pending
    /\ LET q == requests[r]
           bot_message == q.pending[2]
       IN  requests' = [requests EXCEPT ![r] =
               [q EXCEPT !.pc = "done", !.status = 200, !.pending = <<>>,
                         !.result = [id |-> bot_message.id,
                                     content |-> bot_message.content,
                                     is_user |-> FALSE,
                                     created_at |-> bot_message.created_at,
                                     conversation_id |-> q.conversation]]]
    /\ UNCHANGED <<users, conversations, now>>

(***************************************************************************)
(* GET /history/{user_id}, main.py:234-265.  The two queries carry no      *)
(* ORDER BY: rows come back in table order.                                *)
(***************************************************************************)
\* MessageResponse(id=..., content=..., is_user=..., created_at=...), main.py:248-253
MessageResponse(msg) ==
    [id |-> msg.id, content |-> msg.content, is_user |-> (msg.is_user = "true"),
     created_at |-> msg.created_at]

\* db.query(Message).filter(Message.conversation_id == conv.id).all(), main.py:246
MessagesOf(conversation_id) ==
    LET InConversation(msg) == msg.conversation_id = conversation_id
    IN  SelectSeq(messages, InConversation)

get_history(user_id) ==
    IF ~UserFound(user_id)
    THEN [status |-> 404, body |-> <<>>]
    ELSE LET OfUser(conv) == conv.user_id = user_id
             convs == SelectSeq(conversations, OfUser)
         IN  [status |-> 200,
              body |-> [i \in 1..Len(convs) |->
                  [id |-> convs[i].id, sport |-> convs[i].sport,
                   messages |-> LET msgs == MessagesOf(convs[i].id)
                                IN  [j \in 1..Len(msgs) |-> MessageResponse(msgs[j])]]]]

(***************************************************************************)
(* POST /chat/stream, main.py:332-401.                                     *)
(***************************************************************************)
\* return StreamingResponse(content=iter([text]), media_type="text/plain")
Reply_raises(req, text) == Raise(req, 404, "")

Reply(req, text) ==
    [req EXCEPT !.pc = "done", !.status = 200, !.out = <<TextChunk(text)>>]

\* chat_stream is a coroutine that never awaits: from its first statement to
\* its return (main.py:335-401) it holds the event loop, on which every
\* chat_stream call and every streamed body run.  Handlers declared with def
\* (create_user, send_message) run on worker threads and are not held back.
\* The POST /chat/stream requests received.
Streams == {r \in DOMAIN requests : requests[r].op = "stream"}

LoopBusy ==
    \E r \in DOMAIN requests :
        /\ requests[r].op = "stream"
        /\ requests[r].pc \in {"flush_user", "insert_user", "flush_bot", "insert_bot"}

\* main.py:334-356: the checks, and the conversation found or committed.
chat_stream(user_id, sport_in, content, conversation_id) ==
    /\ Len(requests) < MaxRequests
    /\ Cardinality(Streams) < MaxStreams
    /\ ~LoopBusy
    /\ LET request == NewRequest("stream", user_id, sport_in, content, conversation_id)
           r == Len(requests) + 1
           sport == lower(sport_in)
           conversation ==
               IF conversation_id # None
               THEN FindConversation(conversation_id, user_id)
               ELSE None
       IN  IF ~UserFound(user_id)
           THEN /\ requests' = Append(requests, Reply(request, UserNotFoundText))
                /\ UNCHANGED <<users, conversations, messages, now>>
           ELSE IF ~SportSupported(sport)
           THEN /\ requests' = Append(requests, Reply(request, SportNotSupportedText))
                /\ UNCHANGED <<users, conversations, messages, now>>
           ELSE IF conversation = None
           THEN /\ conversations' =
                       Append(conversations, NewConversation(r, request, sport))
                /\ requests' =
                       Append(requests, [request EXCEPT !.pc = "flush_user",
                                                        !.conversation = uuid4(r, 1)])
                /\ UNCHANGED <<users, messages, now>>
           ELSE /\ requests' =
                       Append(requests, [request EXCEPT !.pc = "flush_user",
                                                        !.conversation = conversation])
                /\ UNCHANGED <<users, conversations, messages, now>>

\* main.py:358-365, first half of db.commit(): the user message and its
\* client-side column defaults.
stream_flush_user(r) ==
    /\ requests[r].op = "stream" /\ requests[r].pc = "flush_user"
    /\ LET q == requests[r]
           t == datetime_now(now)
           user_message == UserMessage(uuid4(r, 2), q.conversation, q.content, t, r)
       IN  /\ requests' = [requests EXCEPT ![r] =
                  [q EXCEPT !.pc = "insert_user",
                            !.user_message = user_message.id,
                            !.pending = <<user_message>>]]
           /\ now' = t
    /\ UNCHANGED <<users, conversations, messages>>

\* main.py:365, second half of db.commit(): the INSERT reaches the table.
stream_insert_user(r) ==
    /\ requests[r].op = "stream" /\ requests[r].pc = "insert_user"
    /\ messages' = messages \o requests[r].pending
    /\ requests' = [requests EXCEPT ![r] =
           [requests[r] EXCEPT !.pc = "flush_bot", !.pending = <<>>]]
    /\ UNCHANGED <<users, conversations, now>>

\* main.py:367-374, first half of db.commit(): the placeholder bot message.
stream_flush_bot(r) ==
    /\ requests[r].op = "stream" /\ requests[r].pc = "flush_bot"
    /\ LET q == requests[r]
           t == datetime_now(now)
           bot_message == BotMessage(uuid4(r, 3), q.conversation, <<>>, t, r)
       IN  /\ requests' = [requests EXCEPT ![r] =
                  [q EXCEPT !.pc = "insert_bot",
                            !.bot_message = bot_message.id,
                            !.pending = <<bot_message>>]]
           /\ now' = t
    /\ UNCHANGED <<users, conversations, messages>>

\* main.py:374-401, second half of db.commit(), then the handler returns the
\* StreamingResponse: status 200, body not yet started.
stream_insert_bot(r) ==
    /\ requests[r].op = "stream" /\ requests[r].pc = "insert_bot"
    /\ messages' = messages \o requests[r].pending
    /\ requests' = [requests EXCEPT ![r] =
           [requests[r] EXCEPT !.pc = "respond", !.status = 200, !.pending = <<>>]]
    /\ UNCHANGED <<users, conversations, now>>

\* generate_response, main.py:385: the header line.
stream_header(r) ==
    /\ ~LoopBusy
    /\ requests[r].op = "stream" /\ requests[r].pc = "respond"
    /\ LET q == requests[r]
       IN  requests' = [requests EXCEPT ![r] =
               [q EXCEPT !.pc = "start",
                         !.out = <<HeaderChunk(q.bot_message, q.conversation)>>]]
    /\ UNCHANGED <<users, conversations, messages, now>>

\* main.py:387-388 and generate_streaming_response, main.py:322-325: the
\* response is drawn and split when the generator is first advanced.
stream_start(r) ==
    /\ ~LoopBusy
    /\ requests[r].op = "stream" /\ requests[r].pc = "start"
    /\ \E response \in choices(lower(requests[r].sport)) :
          requests' = [requests EXCEPT ![r] =
              [requests[r] EXCEPT !.pc = "emit", !.words = split(response),
                                  !.full_response = <<>>]]
    /\ UNCHANGED <<users, conversations, messages, now>>

\* yield word + " ", main.py:327
WordChunk_no_space(word) == TextChunk(word)

WordChunk(word) == TextChunk(word \o <<32>>)

\* One turn of the loops at main.py:326-329 and main.py:388-390.
stream_word(r) ==
    /\ ~LoopBusy
    /\ requests[r].op = "stream" /\ requests[r].pc = "emit"
    /\ requests[r].words # <<>>
    /\ LET q == requests[r]
           chunk == WordChunk(Head(q.words))
       IN  requests' = [requests EXCEPT ![r] =
               [q EXCEPT !.words = Tail(q.words),
                         !.full_response = q.full_response \o chunk.text,
                         !.out = Append(q.out, chunk)]]
    /\ UNCHANGED <<users, conversations, messages, now>>

\* db_message.content = full_response.strip(); db.commit(), main.py:392-396
Finalize_unstripped(msgs, message_id, full_response) ==
    [i \in DOMAIN msgs |->
        IF msgs[i].id = message_id
        THEN [msgs[i] EXCEPT !.content = full_response]
        ELSE msgs[i]]

Finalize(msgs, message_id, full_response) ==
    [i \in DOMAIN msgs |->
        IF msgs[i].id = message_id
        THEN [msgs[i] EXCEPT !.content = strip(full_response)]
        ELSE msgs[i]]

\* The word generator is exhausted: main.py:392-396.
stream_finalize(r) ==
    /\ ~LoopBusy
    /\ requests[r].op = "stream" /\ requests[r].pc = "emit"
    /\ requests[r].words = <<>>
    /\ messages' = Finalize(messages, requests[r].bot_message, requests[r].full_response)
    /\ requests' = [requests EXCEPT ![r] = [requests[r] EXCEPT !.pc = "done"]]
    /\ UNCHANGED <<users, conversations, now>>

\* The client disconnects while the body is being sent: the generator is
\* closed at its current yield / await, and main.py:392-396 never runs.  The
\* connection and the generator's frame are gone: their contents are dropped.
stream_cancel(r) ==
    /\ ~LoopBusy
    /\ requests[r].op = "stream" /\ requests[r].pc \in {"respond", "start", "emit"}
    /\ requests' = [requests EXCEPT ![r] =
           [requests[r] EXCEPT !.pc = "cancelled", !.out = <<>>, !.words = <<>>,
                               !.full_response = <<>>]]
    /\ UNCHANGED <<users, conversations, messages, now>>

(***************************************************************************)
(* Specification.                                                          *)
(***************************************************************************)
\* Values a client can put in user_id and conversation_id.
UserIdInputs == UserIds \cup {NilUUID}
ConversationIdInputs == ConversationIds \cup {NilUUID, None}

Next ==
    \/ \E n \in DOMAIN Usernames : create_user(n)
    \/ \E user_id \in UserIdInputs, sport \in Sports, content \in Contents,
          conversation_id \in ConversationIdInputs :
          send_message(user_id, sport, content, conversation_id)
    \/ \E user_id \in UserIdInputs, sport \in Sports, content \in Contents,
          conversation_id \in ConversationIdInputs :
          chat_stream(user_id, sport, content, conversation_id)
    \/ \E r \in DOMAIN requests : send_flush(r)
    \/ \E r \in DOMAIN requests : send_insert(r)
    \/ \E r \in DOMAIN requests : stream_flush_user(r)
    \/ \E r \in DOMAIN requests : stream_insert_user(r)
    \/ \E r \in DOMAIN requests : stream_flush_bot(r)
    \/ \E r \in DOMAIN requests : stream_insert_bot(r)
    \/ \E r \in DOMAIN requests : stream_header(r)
    \/ \E r \in DOMAIN requests : stream_start(r)
    \/ \E r \in DOMAIN requests : stream_word(r)
    \/ \E r \in DOMAIN requests : stream_finalize(r)
    \/ \E r \in DOMAIN requests : stream_cancel(r)

Spec == Init /\ [][Next]_vars

\* POST /users/ and POST /chat/ alone.
NextSend ==
    \/ \E n \in DOMAIN Usernames : create_user(n)
    \/ \E user_id \in UserIdInputs, sport \in Sports, content \in Contents,
          conversation_id \in ConversationIdInputs :
          send_message(user_id, sport, content, conversation_id)
    \/ \E r \in DOMAIN requests : send_flush(r)
    \/ \E r \in DOMAIN requests : send_insert(r)

SpecSend == Init /\ [][NextSend]_vars

\* POST /users/ and POST /chat/stream alone.
NextStream ==
    \/ \E n \in DOMAIN Usernames : create_user(n)
    \/ \E user_id \in UserIdInputs, sport \in Sports, content \in Contents,
          conversation_id \in ConversationIdInputs :
          chat_stream(user_id, sport, content, conversation_id)
    \/ \E r \in DOMAIN requests : stream_flush_user(r)
    \/ \E r \in DOMAIN requests : stream_insert_user(r)
    \/ \E r \in DOMAIN requests : stream_flush_bot(r)
    \/ \E r \in DOMAIN requests : stream_insert_bot(r)
    \/ \E r \in DOMAIN requests : stream_header(r)
    \/ \E r \in DOMAIN requests : stream_start(r)
    \/ \E r \in DOMAIN requests : stream_word(r)
    \/ \E r \in DOMAIN requests : stream_finalize(r)
    \/ \E r \in DOMAIN requests : stream_cancel(r)

SpecStream == Init /\ [][NextStream]_vars

(***************************************************************************)
(* Properties.                                                             *)
(***************************************************************************)
\* Rows a request's commits inserted (indices into the tables).
ConversationsBy(r) == {i \in DOMAIN conversations : conversations[i].by = r}
MessagesBy(r) == {i \in DOMAIN messages : messages[i].by = r}
WroteNothing(r) == ConversationsBy(r) = {} /\ MessagesBy(r) = {}

\* What the claims call a known user, a supported topic, a conversation of the user.
KnownUser(q) == \E u \in users : u.id = q.user_id
SupportedTopic(q) == lower(q.sport) \in {rugby, football, tennis, volley, cyclisme}
OwnConversation(q) ==
    \E i \in DOMAIN conversations :
        conversations[i].id = q.conversation_id /\ conversations[i].user_id = q.user_id

\* The request at the end of requests' was received in this step.
Received(r) == r = Len(requests) + 1 /\ Len(requests') = r
TablesUnchanged == UNCHANGED <<users, conversations, messages>>

\* Request r inserted exactly two messages, both under conversation c: one
\* user message holding the content and one bot message, the one returned.
TwoMessagesUnder(r, c) ==
    LET mine == MessagesBy(r)
    IN  /\ Cardinality(mine) = 2
        /\ \A m \in mine : messages[m].conversation_id = c
        /\ \E m \in mine :
              messages[m].is_user = "true" /\ messages[m].content = requests[r].content
        /\ \E m \in mine :
              messages[m].is_user = "false" /\ messages[m].id = requests[r].result.id
        /\ \A m1, m2 \in mine : messages[m1].id = messages[m2].id => m1 = m2

\* C1: a completed submitMessage with a known user, a topic that is a catalog
\* key once lower-cased and no conversationId has added exactly one
\* Conversation (owned by the user, topic lower-cased) and exactly two
\* Messages under it, one user-authored holding the content and one
\* bot-authored, and returns the new Conversation's id.
C1_NewConversation ==
    \A r \in DOMAIN requests :
        LET q == requests[r]
        IN  (/\ q.op = "send" /\ q.pc = "done" /\ q.conversation_id = None
             /\ KnownUser(q) /\ SupportedTopic(q))
            => /\ q.status = 200
               /\ Cardinality(ConversationsBy(r)) = 1
               /\ \A c \in ConversationsBy(r) :
                     /\ conversations[c].user_id = q.user_id
                     /\ conversations[c].sport = lower(q.sport)
                     /\ \A d \in DOMAIN conversations :
                            conversations[d].id = conversations[c].id => d = c
                     /\ q.result.conversation_id = conversations[c].id
                     /\ TwoMessagesUnder(r, conversations[c].id)

C1_Witness ==
    \E r \in DOMAIN requests :
        /\ requests[r].op = "send" /\ requests[r].pc = "done"
        /\ requests[r].status = 200
        /\ requests[r].conversation_id = None
        /\ requests[r].sport = Football
        /\ \E c \in ConversationsBy(r) : conversations[c].sport = football
        /\ Cardinality(MessagesBy(r)) = 2

\* C2: a completed submitMessage with a known user, a supported topic and a
\* conversationId that names a Conversation of that user has added no
\* Conversation and exactly two Messages (one user, one bot), both under
\* conversationId, and returns conversationId.
C2_ReuseConversation ==
    \A r \in DOMAIN requests :
        LET q == requests[r]
        IN  (/\ q.op = "send" /\ q.pc = "done" /\ q.conversation_id # None
             /\ KnownUser(q) /\ SupportedTopic(q) /\ OwnConversation(q))
            => /\ q.status = 200
               /\ ConversationsBy(r) = {}
               /\ q.result.conversation_id = q.conversation_id
               /\ TwoMessagesUnder(r, q.conversation_id)

C2_Witness ==
    \E r \in DOMAIN requests :
        /\ requests[r].op = "send" /\ requests[r].pc = "done"
        /\ requests[r].status = 200
        /\ requests[r].conversation_id # None
        /\ \E c \in DOMAIN conversations :
              conversations[c].id = requests[r].conversation_id /\ conversations[c].by # r
        /\ Cardinality(MessagesBy(r)) = 2
        /\ Len(conversations) = 1

\* C3: submitMessage with a userId that names no User fails with NotFound
\* whatever the topic and the conversationId, and the step that receives it
\* leaves users, conversations and messages unchanged; it never writes a row.
C3_State ==
    \A r \in DOMAIN requests :
        LET q == requests[r]
        IN  (q.op = "send" /\ ~KnownUser(q))
            => q.pc = "done" /\ q.status = 404 /\ WroteNothing(r)

C3_Step ==
    \A r \in DOMAIN requests' :
        (Received(r) /\ requests'[r].op = "send" /\ ~KnownUser(requests'[r]))
        => requests'[r].status = 404 /\ TablesUnchanged

C3_UnknownUser == []C3_State /\ [][C3_Step]_vars

C3_Witness ==
    /\ users # {}
    /\ \E r \in DOMAIN requests :
          /\ requests[r].op = "send" /\ requests[r].status = 404
          /\ requests[r].user_id = NilUUID
          /\ requests[r].sport = Football
          /\ requests[r].conversation_id \in ConversationIds

\* C4: submitMessage by a known user with a topic whose lower-cased form is
\* no catalog key fails with InvalidArgument whatever the conversationId, and
\* writes no Conversation and no Message.
C4_State ==
    \A r \in DOMAIN requests :
        LET q == requests[r]
        IN  (q.op = "send" /\ KnownUser(q) /\ ~SupportedTopic(q))
            => q.pc = "done" /\ q.status = 400 /\ WroteNothing(r)

C4_Step ==
    \A r \in DOMAIN requests' :
        (/\ Received(r) /\ requests'[r].op = "send"
         /\ KnownUser(requests'[r]) /\ ~SupportedTopic(requests'[r]))
        => requests'[r].status = 400 /\ TablesUnchanged

C4_UnsupportedTopic == []C4_State /\ [][C4_Step]_vars

C4_Witness ==
    \E r \in DOMAIN requests :
        /\ requests[r].op = "send" /\ requests[r].status = 400
        /\ requests[r].sport = badminton
        /\ KnownUser(requests[r])
        /\ OwnConversation(requests[r])

\* C5 (as claimed): for a known user and a supported topic, when the
\* conversationId supplied names no Conversation of that user, submitMessage
\* fails with NotFound and writes nothing, and startStream likewise creates
\* no Conversation and writes no Message.
C5_StreamResolvesAsSubmit ==
    \A r \in DOMAIN requests :
        LET q == requests[r]
        IN  (/\ KnownUser(q) /\ SupportedTopic(q)
             /\ q.conversation_id # None /\ ~OwnConversation(q))
            => /\ WroteNothing(r)
               /\ q.op = "send" => (q.pc = "done" /\ q.status = 404)

\* The text chunks of a body after its header line, concatenated.
RECURSIVE Concat(_)
Concat(chunks) ==
    IF chunks = <<>> THEN <<>> ELSE Head(chunks).text \o Concat(Tail(chunks))

IsHeader(chunk) == chunk.json # <<>>

\* C6: for a stream that ran to completion, the chunks after the header line,
\* concatenated in order and trimmed of trailing white space, equal exactly
\* one entry of the catalog list of the lower-cased topic, and the bot
\* message named in the header holds that same string.
C6_StreamedText ==
    \A r \in DOMAIN requests :
        LET q == requests[r]
        IN  (q.op = "stream" /\ q.pc = "done" /\ KnownUser(q) /\ SupportedTopic(q))
            => /\ Len(q.out) >= 1 /\ IsHeader(q.out[1])
               /\ \A k \in 2..Len(q.out) : ~IsHeader(q.out[k])
               /\ LET text == rstrip(Concat(Tail(q.out)))
                      entries == sport_responses[lower(q.sport)]
                  IN  /\ Cardinality({i \in DOMAIN entries : entries[i] = text}) = 1
                      /\ \E m \in DOMAIN messages :
                            /\ messages[m].id = q.out[1].json[1]
                            /\ messages[m].is_user = "false"
                            /\ messages[m].content = text

C6_Witness ==
    \E r \in DOMAIN requests :
        /\ requests[r].op = "stream" /\ requests[r].pc = "done"
        /\ Len(requests[r].out) > 2
        /\ \E m \in MessagesBy(r) : messages[m].content = football_3

\* The placeholder row of stream r, once inserted.
Placeholder(r) == {m \in DOMAIN messages : messages[m].id = requests[r].bot_message}
InProgress(q) == q.pc \in {"respond", "start", "emit"}
Complete(content, q) == content \in choices(lower(q.sport))

C7_State ==
    /\ \A m \in DOMAIN messages :
          (messages[m].is_user = "false" /\ messages[m].content = <<>>)
          => LET q == requests[messages[m].by]
             IN  /\ q.op = "stream" /\ q.bot_message = messages[m].id
                 /\ InProgress(q) \/ q.pc = "cancelled"
    /\ \A r \in DOMAIN requests : \A m \in Placeholder(r) :
          LET q == requests[r]
          IN  /\ (q.op = "stream" /\ q.pc = "done")
                 => Complete(messages[m].content, q)
              /\ (q.op = "stream" /\ q.pc = "cancelled") => messages[m].content = <<>>

C7_Step ==
    \A m \in DOMAIN messages :
        messages'[m].content # messages[m].content
        => /\ messages[m].content = <<>>
           /\ messages[m].is_user = "false"
           /\ requests[messages[m].by].pc = "emit"
           /\ requests'[messages[m].by].pc = "done"
           /\ requests[messages[m].by].bot_message = messages[m].id

C8_HistorySorted ==
    \A user_id \in UserIds :
        LET h == get_history(user_id)
        IN  /\ h.status = 200
            /\ Len(h.body) = Cardinality({i \in DOMAIN conversations :
                                            conversations[i].user_id = user_id})
            /\ {h.body[i].id : i \in DOMAIN h.body} =
                   {conversations[i].id : i \in {j \in DOMAIN conversations :
                                                   conversations[j].user_id = user_id}}
            /\ \A i \in DOMAIN h.body :
                  \A j, k \in DOMAIN h.body[i].messages :
                      j < k => h.body[i].messages[j].created_at
                                   <= h.body[i].messages[k].created_at

\* C9: when startStream's user check or topic check fails, the body is
\* exactly one plain-text chunk (no header record, no word chunk), no error
\* is raised, and no Conversation and no Message is written.
C9_State ==
    \A r \in DOMAIN requests :
        LET q == requests[r]
        IN  (q.op = "stream" /\ (~KnownUser(q) \/ ~SupportedTopic(q)))
            => /\ q.pc = "done" /\ q.status = 200
               /\ Len(q.out) = 1 /\ ~IsHeader(q.out[1])
               /\ q.out[1].text =
                      IF ~KnownUser(q) THEN UserNotFoundText ELSE SportNotSupportedText
               /\ WroteNothing(r)

C9_Step ==
    \A r \in DOMAIN requests' :
        (/\ Received(r) /\ requests'[r].op = "stream"
         /\ (~KnownUser(requests'[r]) \/ ~SupportedTopic(requests'[r])))
        => requests'[r].pc = "done" /\ TablesUnchanged

C9_ErrorReply == []C9_State /\ [][C9_Step]_vars

C9_Witness ==
    /\ users # {}
    /\ \E r \in DOMAIN requests :
          /\ requests[r].op = "stream" /\ requests[r].pc = "done"
          /\ requests[r].user_id = NilUUID
          /\ requests[r].sport = Football
          /\ requests[r].out = <<TextChunk(UserNotFoundText)>>

\* C10: in every reachable state every Conversation's user id is the id of
\* an existing User, every Message's conversation id is the id of an
\* existing Conversation, and every Conversation's topic is a lower-cased
\* key of the catalog.
C10_References ==
    /\ \A c \in DOMAIN conversations :
          /\ \E u \in users : u.id = conversations[c].user_id
          /\ conversations[c].sport \in {rugby, football, tennis, volley, cyclisme}
          /\ conversations[c].sport = lower(conversations[c].sport)
    /\ \A m \in DOMAIN messages :
          \E c \in DOMAIN conversations : conversations[c].id = messages[m].conversation_id

C10_Witness ==
    \E r1, r2 \in DOMAIN requests :
        /\ requests[r1].op = "stream" /\ requests[r2].op = "send"
        /\ ConversationsBy(r1) # {}
        /\ \E m \in MessagesBy(r2) : \E c \in ConversationsBy(r1) :
              messages[m].conversation_id = conversations[c].id
        /\ Cardinality(users) = 2

====
